---- MODULE Spec2Model ----
(***************************************************************************)
(* Model of the review-submission endpoint: the hardened handler of        *)
(* functions/submit-review.js and the early handler (metafieldUpsert       *)
(* dialect).  Each invocation is a process; its steps are the code between *)
(* two awaits.  The platform's metafield and the outcomes of the outbound  *)
(* calls are the environment.                                              *)
(***************************************************************************)
EXTENDS Integers, Sequences, FiniteSets, TLC

VARIABLES revision, env, store, inv

vars == <<revision, env, store, inv>>

\* ------------------------------------------------------------- bounds
NumInvocations == 2
MaxClock == 2

Invocations == 1..NumInvocations

\* ------------------------------------------------------- JS values
\* A JavaScript value is a record tagged by its type.  Client strings are
\* sequences of one-character strings; literals of the program are "msg".
Undef == [t |-> "undef"]
Null == [t |-> "null"]
NaN == [t |-> "nan"]
Str(s) == [t |-> "str", v |-> s]
Num(n) == [t |-> "num", v |-> n]
Msg(m) == [t |-> "msg", v |-> m]
Bool(b) == [t |-> "bool", v |-> b]
List(s) == [t |-> "list", v |-> s]
Obj(r) == [t |-> "obj", v |-> r]

\* JavaScript truthiness, as tested by the ! operator.
Truthy(x) ==
  CASE x.t = "undef" -> FALSE
    [] x.t = "null" -> FALSE
    [] x.t = "nan" -> FALSE
    [] x.t = "str" -> Len(x.v) > 0
    [] x.t = "msg" -> x.v # ""
    [] x.t = "num" -> x.v # 0
    [] x.t = "bool" -> x.v
    [] OTHER -> TRUE

\* ------------------------------------------------------- characters
Digits == {"0", "1", "2", "3", "4", "5", "6", "7", "8", "9"}

DigitVal(c) ==
  CASE c = "0" -> 0 [] c = "1" -> 1 [] c = "2" -> 2 [] c = "3" -> 3
    [] c = "4" -> 4 [] c = "5" -> 5 [] c = "6" -> 6 [] c = "7" -> 7
    [] c = "8" -> 8 [] c = "9" -> 9

DigitChar(d) ==
  CASE d = 0 -> "0" [] d = 1 -> "1" [] d = 2 -> "2" [] d = 3 -> "3"
    [] d = 4 -> "4" [] d = 5 -> "5" [] d = 6 -> "6" [] d = 7 -> "7"
    [] d = 8 -> "8" [] d = 9 -> "9"

IsSpace(c) == c = " "

RECURSIVE NatToChars(_)
NatToChars(n) ==
  IF n < 10 THEN <<DigitChar(n)>>
  ELSE Append(NatToChars(n \div 10), DigitChar(n % 10))

\* String conversion of a value inside a template literal `${x}`.
ToChars(x) ==
  CASE x.t = "str" -> x.v
    [] x.t = "num" -> IF x.v < 0 THEN <<"-">> \o NatToChars(0 - x.v)
                       ELSE NatToChars(x.v)
    [] OTHER -> <<>>

RECURSIVE DropLeadingSpace(_)
DropLeadingSpace(s) ==
  IF s # <<>> /\ IsSpace(Head(s)) THEN DropLeadingSpace(Tail(s)) ELSE s

RECURSIVE DropTrailingSpace(_)
DropTrailingSpace(s) ==
  IF s # <<>> /\ IsSpace(s[Len(s)])
  THEN DropTrailingSpace(SubSeq(s, 1, Len(s) - 1))
  ELSE s

\* String.prototype.trim
Trim(s) == DropTrailingSpace(DropLeadingSpace(s))

RECURSIVE DigitPrefix(_)
DigitPrefix(s) ==
  IF s # <<>> /\ Head(s) \in Digits
  THEN <<Head(s)>> \o DigitPrefix(Tail(s))
  ELSE <<>>

RECURSIVE CharsToNat(_)
CharsToNat(s) ==
  IF s = <<>> THEN 0
  ELSE 10 * CharsToNat(SubSeq(s, 1, Len(s) - 1)) + DigitVal(s[Len(s)])

\* parseInt(x, 10): the argument is converted to a string, leading white
\* space is skipped, an optional sign is read, then the longest run of
\* decimal digits; NaN when that run is empty.
parseInt(x) ==
  LET s == DropLeadingSpace(ToChars(x))
      neg == s # <<>> /\ Head(s) = "-"
      rest == IF s # <<>> /\ Head(s) \in {"-", "+"} THEN Tail(s) ELSE s
      ds == DigitPrefix(rest)
  IN IF ds = <<>> THEN NaN
     ELSE Num(IF neg THEN 0 - CharsToNat(ds) ELSE CharsToNat(ds))

\* /^\d+$/ on a string
AllDigits(s) == s # <<>> /\ \A k \in 1..Len(s) : s[k] \in Digits

\* The replacement table of sanitizeInput, as the source file holds it: each
\* of the five matched characters is mapped to the value written beside it.
EscapeOf(c) ==
  CASE c = "<" -> <<"<">>
    [] c = ">" -> <<">">>
    [] c = "\"" -> <<"\"">>
    [] c = "'" -> <<"'">>
    [] c = "&" -> <<"&">>
    [] OTHER -> <<c>>

RECURSIVE ReplaceAll(_)
ReplaceAll(s) ==
  IF s = <<>> THEN <<>> ELSE EscapeOf(Head(s)) \o ReplaceAll(Tail(s))

sanitizeInput(x) ==
  IF x.t # "str" THEN x ELSE Str(Trim(ReplaceAll(x.v)))

\* ------------------------------------------------------------- JSON
\* A text is either the JSON encoding of a value or no JSON at all.
BadText == [k |-> "bad", v |-> Undef]
EmptyText == [k |-> "empty", v |-> Undef]

RECURSIVE Encodable(_)
\* What JSON.stringify writes for a value: an object key whose value is
\* undefined is left out (it reads back as undefined), NaN is written as null.
Encodable(x) ==
  CASE x.t = "nan" -> Null
    [] x.t = "list" -> List([k \in 1..Len(x.v) |->
                              IF x.v[k].t = "undef" THEN Null ELSE Encodable(x.v[k])])
    [] x.t = "obj" -> Obj([f \in DOMAIN x.v |-> Encodable(x.v[f])])
    [] OTHER -> x

JSONstringify(x) == [k |-> "json", v |-> Encodable(x)]

\* JSON.parse: the value, or a SyntaxError (the empty text is no JSON).
JSONparse(text) ==
  IF text.k = "json" THEN [ok |-> TRUE, v |-> text.v]
  ELSE [ok |-> FALSE, v |-> Undef]

\* ------------------------------------------------------------ reviews
Chars100 == <<"1", "0", "0">>

Products == {Chars100}

Pending == Msg("pending")

ISODate(t) == [t |-> "date", v |-> t]

OldReview1 ==
  Obj([name |-> Str(<<"A">>), text |-> Str(<<"a">>), stars |-> Num(4),
       status |-> Msg("approved"), date |-> ISODate(0)])

OldReview2 ==
  Obj([name |-> Str(<<"B">>), text |-> Str(<<"b">>), stars |-> Num(2),
       status |-> Pending, date |-> ISODate(0)])

\* The metafield custom.reviews of a product: absent, or its value text.
Absent == [k |-> "absent", v |-> Undef]

InitialStores ==
  {Absent, EmptyText, JSONstringify(List(<<OldReview1, OldReview2>>))}

\* ----------------------------------------------------------- requests
ValidPayload ==
  [productId |-> Str(Chars100), name |-> Str(<<"J", "o">>),
   text |-> Str(<<"O", "k">>), stars |-> Num(5),
   recaptchaResponse |-> Str(<<"t">>), status |-> Undef, date |-> Undef]

Payloads ==
  { ValidPayload,
    [ValidPayload EXCEPT !.status = Str(<<"o", "k">>),
                         !.date = Str(<<"1", "9", "9", "9">>)],
    [ValidPayload EXCEPT !.text = Undef],
    [ValidPayload EXCEPT !.stars = Num(0)],
    [ValidPayload EXCEPT !.stars = Num(6)],
    [ValidPayload EXCEPT !.stars = Str(<<"x">>)],
    [ValidPayload EXCEPT !.text = Str(<<" ">>)],
    [ValidPayload EXCEPT !.productId = Str(<<"a", "b", "c", "1">>)],
    [ValidPayload EXCEPT !.productId = Num(100)],
    [ValidPayload EXCEPT !.name = Str(<<" ", "<", "J", " ">>),
                         !.stars = Str(<<"3", "x">>)] }

Bodies ==
  {BadText, JSONstringify(Null), JSONstringify(Num(5))}
    \cup {JSONstringify(Obj(p)) : p \in Payloads}

Requests ==
  {[httpMethod |-> "OPTIONS", body |-> BadText],
   [httpMethod |-> "OPTIONS", body |-> JSONstringify(Null)],
   [httpMethod |-> "GET", body |-> JSONstringify(Obj(ValidPayload))]}
    \cup {[httpMethod |-> "POST", body |-> b] : b \in Bodies}

\* ------------------------------------------------------ configuration
DefaultOrigin == Msg("https://mamamary.io")

FullEnv ==
  [ADMIN_API_ACCESS_TOKEN |-> Msg("token"), SHOP |-> Msg("shop"),
   RECAPTCHA_SECRET_KEY |-> Msg("secret"),
   ALLOWED_ORIGIN |-> Msg("https://shop.example")]

Envs ==
  { FullEnv,
    [FullEnv EXCEPT !.ADMIN_API_ACCESS_TOKEN = Undef, !.ALLOWED_ORIGIN = Undef],
    [FullEnv EXCEPT !.SHOP = Undef],
    [FullEnv EXCEPT !.RECAPTCHA_SECRET_KEY = Undef] }

Revisions == {"hardened", "early"}

\* ---------------------------------------------------------- responses
Body(error, details, message) ==
  JSONstringify(Obj([error |-> error, details |-> details, message |-> message]))

ErrorBody(error) == Body(error, Undef, Undef)

\* allowedOrigin: the hardened file reads ALLOWED_ORIGIN with a default, the
\* early file holds the literal.
allowedOrigin(rev, e) ==
  IF rev = "hardened" /\ Truthy(e.ALLOWED_ORIGIN) THEN e.ALLOWED_ORIGIN
  ELSE DefaultOrigin

corsHeaders(rev, e) ==
  [AllowOrigin |-> allowedOrigin(rev, e),
   AllowMethods |-> Msg("POST, OPTIONS"),
   AllowHeaders |-> Msg("Content-Type")]

NoResponse == [statusCode |-> 0, headers |-> Undef, body |-> BadText]

NoRequest == [httpMethod |-> "", body |-> BadText]

\* const metafield = data?.data?.product?.metafield, when nothing is there
NoMetafield == [k |-> "undefined", v |-> Undef]

\* ------------------------------------------- one invocation's local state
InitLocal ==
  [pc |-> "idle", request |-> NoRequest,
   productId |-> Undef, name |-> Undef, text |-> Undef, stars |-> Undef,
   recaptchaResponse |-> Undef, starsNum |-> Undef, recaptchaData |-> Undef,
   sanitizedName |-> Undef, sanitizedText |-> Undef, metafield |-> NoMetafield,
   existingReviews |-> Undef, updatedReviews |-> Undef,
   updateResult |-> Undef, response |-> NoResponse, events |-> <<>>,
   log |-> <<>>]

\* console.log / console.error: one entry for each call, the line of the
\* call and the values it prints.  The early file logs nothing.
Entry(line, v) == [line |-> line, v |-> v]

Log(l, rev, entries) ==
  IF rev = "hardened" THEN [l EXCEPT !.log = @ \o entries] ELSE l

\* `https://www.google.com/recaptcha/api/siteverify?secret=${recaptchaSecret}
\* &response=${recaptchaResponse}`
recaptchaVerifyUrl(l, e) ==
  [host |-> "www.google.com/recaptcha/api/siteverify",
   secret |-> e.RECAPTCHA_SECRET_KEY, response |-> l.recaptchaResponse]

\* `https://${shop}/admin/api/${shopifyApiVersion}/graphql.json`
graphqlUrl(e) == [host |-> e.SHOP, secret |-> Undef, response |-> Undef]

\* The message of the error a rejected fetch(url) or response.json() of
\* node-fetch carries: "request to <url> failed, reason: ..." or "invalid
\* json response body at <url> reason: ...".  Either names the url.
FetchError(url) == [t |-> "fetcherror", v |-> url]

\* Faulty variant: the responses of status 500 carry no headers.
Respond_NoHeadersOn500(l, rev, e, status, body) ==
  [l EXCEPT !.pc = "done",
            !.response = [statusCode |-> status,
                          headers |-> IF status = 500 THEN Undef
                                      ELSE corsHeaders(rev, e),
                          body |-> body]]

\* return { statusCode, headers, body }
Respond(l, rev, e, status, body) ==
  [l EXCEPT !.pc = "done",
            !.response = [statusCode |-> status, headers |-> corsHeaders(rev, e),
                          body |-> body]]

\* An exception that leaves the handler: the invocation rejects.
Throw(l) == [l EXCEPT !.pc = "threw"]

\* await fetch(...): the call is issued and the invocation is suspended.
IssueCall(l, call) == [l EXCEPT !.pc = call, !.events = Append(@, call)]

\* The awaited call has come back (with a value or an error).
Returned(call) ==
  CASE call = "verify" -> "verify:done"
    [] call = "read" -> "read:done"
    [] call = "write" -> "write:done"

Resume(l) == [l EXCEPT !.events = Append(@, Returned(l.pc))]

\* The catch block around the read-append-write sequence.
Caught(l, rev, e, message) ==
  IF rev = "hardened"
  THEN Respond(Log(l, rev, <<Entry(187, message)>>), rev, e, 500,
               Body(Msg("An unexpected error occurred"), message, Undef))
  ELSE Respond(l, rev, e, 500, ErrorBody(message))

\* const { productId, name, text, stars, recaptchaResponse } = payload
Extract(payload, f) == IF payload.t = "obj" THEN payload.v[f] ELSE Undef

Destructure(l, rev, payload) ==
  [l EXCEPT !.productId = Extract(payload, "productId"),
            !.name = Extract(payload, "name"),
            !.text = Extract(payload, "text"),
            !.stars = Extract(payload, "stars"),
            !.recaptchaResponse =
               IF rev = "hardened" THEN Extract(payload, "recaptchaResponse")
               ELSE Undef]

\* Faulty variant: a field counts as missing only when it is undefined, so that a
\* stars value of 0 passes.
MissingRequired_OnlyUndefined(l, rev) ==
  \/ l.productId = Undef
  \/ l.name = Undef
  \/ l.text = Undef
  \/ l.stars = Undef
  \/ rev = "hardened" /\ l.recaptchaResponse = Undef

MissingRequired(l, rev) ==
  \/ ~Truthy(l.productId)
  \/ ~Truthy(l.name)
  \/ ~Truthy(l.text)
  \/ ~Truthy(l.stars)
  \/ rev = "hardened" /\ ~Truthy(l.recaptchaResponse)

\* Faulty variant: the upper end of the range is not tested.
StarsInvalid_NoUpperBound(starsNum) ==
  starsNum.t = "nan" \/ starsNum.v < 1

\* isNaN(starsNum) || starsNum < 1 || starsNum > 5
StarsInvalid(starsNum) ==
  starsNum.t = "nan" \/ starsNum.v < 1 \/ starsNum.v > 5

\* Faulty variant: the configuration is refused only when nothing of it is there.
ConfigMissing_AllAbsent(rev, e) ==
  /\ ~Truthy(e.ADMIN_API_ACCESS_TOKEN)
  /\ ~Truthy(e.SHOP)
  /\ rev = "hardened" => ~Truthy(e.RECAPTCHA_SECRET_KEY)

ConfigMissing(rev, e) ==
  \/ ~Truthy(e.ADMIN_API_ACCESS_TOKEN)
  \/ ~Truthy(e.SHOP)
  \/ rev = "hardened" /\ ~Truthy(e.RECAPTCHA_SECRET_KEY)

ConfigError(rev) ==
  IF rev = "hardened"
  THEN Msg("Server misconfiguration: Missing environment variables")
  ELSE Msg("Server misconfiguration")

\* Faulty variant: the Reader does not test the form of the productId.
CallFetchReviews_NoFormatCheck(l, rev, e) ==
  IssueCall(Log(l, rev, <<Entry(219, graphqlUrl(e).host),
                          Entry(220, l.productId)>>),
            "read")

\* fetchReviews up to its fetch: the hardened revision tests the productId
\* first (productId.match is no function on a number, a TypeError).
CallFetchReviews(l, rev, e) ==
  IF rev = "hardened" /\ l.productId.t # "str"
  THEN Caught(l, rev, e, Msg("productId.match is not a function"))
  ELSE IF rev = "hardened" /\ ~AllDigits(l.productId.v)
  THEN Caught(l, rev, e, Msg("Invalid productId format"))
  ELSE IssueCall(Log(l, rev, <<Entry(219, graphqlUrl(e).host),
                               Entry(220, l.productId)>>),
                 "read")

\* updateReviews up to its fetch.
CallUpdateReviews(l, rev, e) ==
  IF rev = "hardened" /\ l.productId.t # "str"
  THEN Caught(l, rev, e, Msg("productId.match is not a function"))
  ELSE IF rev = "hardened" /\ ~AllDigits(l.productId.v)
  THEN Caught(l, rev, e, Msg("Invalid productId format"))
  ELSE IssueCall(Log(l, rev, <<Entry(289, graphqlUrl(e).host),
                               Entry(290, [productId |-> l.productId,
                                           value |-> l.updatedReviews])>>),
                 "write")

\* Faulty variant: the body is parsed before the method is looked at.
HandlerEntry_ParsesFirst(l0, req, rev, e) ==
  LET l == Log([l0 EXCEPT !.request = req], rev,
               <<Entry(27, [method |-> req.httpMethod, body |-> req.body])>>)
      p == Log(l, rev, <<Entry(58, req.body)>>)
      parsed == JSONparse(req.body)
      d0 == Destructure(p, rev, parsed.v)
      fields == [productId |-> d0.productId, name |-> d0.name, text |-> d0.text,
                 stars |-> d0.stars, recaptchaResponse |-> d0.recaptchaResponse]
      d == Log(d0, rev, <<Entry(70, fields)>>)
      sn == parseInt(d.stars)
      v == IF rev = "hardened" THEN [d EXCEPT !.starsNum = sn] ELSE d
  IN IF ~parsed.ok
     THEN Respond(Log(p, rev, <<Entry(61, Msg("Unexpected token"))>>), rev, e, 400,
                  Body(Msg("Invalid JSON body"),
                       IF rev = "hardened" THEN Msg("Unexpected token") ELSE Undef,
                       Undef))
     ELSE IF parsed.v.t \in {"null", "undef"} THEN Throw(p)
     ELSE IF req.httpMethod = "OPTIONS"
     THEN Respond(Log(l, rev, <<Entry(37, Undef)>>), rev, e, 204, EmptyText)
     ELSE IF req.httpMethod # "POST"
     THEN Respond(Log(l, rev, <<Entry(47, Msg(req.httpMethod))>>), rev, e, 405,
                  ErrorBody(Msg("Method Not Allowed")))
     ELSE IF MissingRequired(d, rev)
     THEN Respond(Log(d, rev, <<Entry(74, fields)>>), rev, e, 400,
                  ErrorBody(Msg("Missing required fields")))
     ELSE IF rev = "hardened" /\ StarsInvalid(sn)
     THEN Respond(Log(v, rev, <<Entry(85, v.stars)>>), rev, e, 400,
                  ErrorBody(Msg("Stars must be a number between 1 and 5")))
     ELSE IF ConfigMissing(rev, e)
     THEN Respond(Log(v, rev,
                      <<Entry(95, [hasShop |-> Truthy(e.SHOP),
                                   hasToken |-> Truthy(e.ADMIN_API_ACCESS_TOKEN),
                                   hasRecaptchaSecret |->
                                     Truthy(e.RECAPTCHA_SECRET_KEY)])>>),
                  rev, e, 500, ErrorBody(ConfigError(rev)))
     ELSE IF rev = "hardened"
     THEN IssueCall(Log(v, rev, <<Entry(108, Undef)>>), "verify")
     ELSE CallFetchReviews(v, rev, e)

\* The handler from its entry to its first await (or its return).
HandlerEntry(l0, req, rev, e) ==
  LET l == Log([l0 EXCEPT !.request = req], rev,
               <<Entry(27, [method |-> req.httpMethod, body |-> req.body])>>)
      p == Log(l, rev, <<Entry(58, req.body)>>)
      parsed == JSONparse(req.body)
      d0 == Destructure(p, rev, parsed.v)
      fields == [productId |-> d0.productId, name |-> d0.name, text |-> d0.text,
                 stars |-> d0.stars, recaptchaResponse |-> d0.recaptchaResponse]
      d == Log(d0, rev, <<Entry(70, fields)>>)
      sn == parseInt(d.stars)
      v == IF rev = "hardened" THEN [d EXCEPT !.starsNum = sn] ELSE d
  IN IF req.httpMethod = "OPTIONS"
     THEN Respond(Log(l, rev, <<Entry(37, Undef)>>), rev, e, 204, EmptyText)
     ELSE IF req.httpMethod # "POST"
     THEN Respond(Log(l, rev, <<Entry(47, Msg(req.httpMethod))>>), rev, e, 405,
                  ErrorBody(Msg("Method Not Allowed")))
     ELSE IF ~parsed.ok
     THEN Respond(Log(p, rev, <<Entry(61, Msg("Unexpected token"))>>), rev, e, 400,
                  Body(Msg("Invalid JSON body"),
                       IF rev = "hardened" THEN Msg("Unexpected token") ELSE Undef,
                       Undef))
     ELSE IF parsed.v.t \in {"null", "undef"} THEN Throw(p)
     ELSE IF MissingRequired(d, rev)
     THEN Respond(Log(d, rev, <<Entry(74, fields)>>), rev, e, 400,
                  ErrorBody(Msg("Missing required fields")))
     ELSE IF rev = "hardened" /\ StarsInvalid(sn)
     THEN Respond(Log(v, rev, <<Entry(85, v.stars)>>), rev, e, 400,
                  ErrorBody(Msg("Stars must be a number between 1 and 5")))
     ELSE IF ConfigMissing(rev, e)
     THEN Respond(Log(v, rev,
                      <<Entry(95, [hasShop |-> Truthy(e.SHOP),
                                   hasToken |-> Truthy(e.ADMIN_API_ACCESS_TOKEN),
                                   hasRecaptchaSecret |->
                                     Truthy(e.RECAPTCHA_SECRET_KEY)])>>),
                  rev, e, 500, ErrorBody(ConfigError(rev)))
     ELSE IF rev = "hardened"
     THEN IssueCall(Log(v, rev, <<Entry(108, Undef)>>), "verify")
     ELSE CallFetchReviews(v, rev, e)

\* ------------------------------------------------- bot verification
\* What the verification call can come back with: the fetch or its json()
\* rejects, or a JSON value is read.
VerifyOutcomes ==
  { [k |-> "reject", data |-> Undef],
    [k |-> "data", data |-> Null],
    [k |-> "data", data |-> Obj([success |-> Bool(TRUE), codes |-> Undef])],
    [k |-> "data", data |-> Obj([success |-> Bool(FALSE), codes |-> Undef])],
    [k |-> "data", data |-> Obj([success |-> Bool(FALSE), codes |-> List(<<>>)])],
    [k |-> "data",
     data |-> Obj([success |-> Bool(FALSE),
                   codes |-> List(<<Msg("invalid-input-response")>>)])] }

\* Faulty variant: the success flag of the verification is not looked at.
AfterVerify_IgnoresSuccess(l0, o, rev, e) ==
  LET l == [Resume(l0) EXCEPT !.recaptchaData = o.data]
      failed == FetchError(recaptchaVerifyUrl(l, e))
      noObject == Msg("Cannot read properties of null")
      sName == sanitizeInput(l.name)
      sText == sanitizeInput(l.text)
  IN
  IF o.k = "reject"
  THEN Respond(Log(l, rev, <<Entry(128, failed)>>), rev, e, 500,
               Body(Msg("Failed to verify reCAPTCHA"), failed, Undef))
  ELSE IF o.data.t # "obj"
  THEN Respond(Log(l, rev, <<Entry(113, o.data), Entry(128, noObject)>>),
               rev, e, 500,
               Body(Msg("Failed to verify reCAPTCHA"), noObject, Undef))
  ELSE CallFetchReviews(
         Log([l EXCEPT !.sanitizedName = sName, !.sanitizedText = sText], rev,
             <<Entry(113, o.data), Entry(126, Undef),
               Entry(139, [sanitizedName |-> sName, sanitizedText |-> sText]),
               Entry(142, l.productId)>>),
         rev, e)

\* The handler from the return of the verification call to its next await.
AfterVerify(l0, o, rev, e) ==
  LET l == [Resume(l0) EXCEPT !.recaptchaData = o.data]
      failed == FetchError(recaptchaVerifyUrl(l, e))
      noObject == Msg("Cannot read properties of null")
      sName == sanitizeInput(l.name)
      sText == sanitizeInput(l.text)
  IN
  IF o.k = "reject"
  THEN Respond(Log(l, rev, <<Entry(128, failed)>>), rev, e, 500,
               Body(Msg("Failed to verify reCAPTCHA"), failed, Undef))
  ELSE IF o.data.t # "obj"
  THEN Respond(Log(l, rev, <<Entry(113, o.data), Entry(128, noObject)>>),
               rev, e, 500,
               Body(Msg("Failed to verify reCAPTCHA"), noObject, Undef))
  ELSE IF ~Truthy(o.data.v.success)
  THEN Respond(Log(l, rev,
                   <<Entry(113, o.data),
                     Entry(116, [success |-> o.data.v.success,
                                 errors |-> o.data.v.codes])>>),
               rev, e, 400,
               Body(Msg("reCAPTCHA verification failed"),
                    IF Truthy(o.data.v.codes) THEN o.data.v.codes
                    ELSE Msg("Invalid reCAPTCHA response"),
                    Undef))
  ELSE CallFetchReviews(
         Log([l EXCEPT !.sanitizedName = sName, !.sanitizedText = sText], rev,
             <<Entry(113, o.data), Entry(126, Undef),
               Entry(139, [sanitizedName |-> sName, sanitizedText |-> sText]),
               Entry(142, l.productId)>>),
         rev, e)

\* ------------------------------------------------------------ reading
\* The product a request names: `gid://shopify/Product/${productId}`.
ProductOf(productId) == ToChars(productId)

\* The platform's answer to the read query: the product's metafield, none
\* for an identifier that names no product.
ReadMetafield(st, productId) ==
  IF ProductOf(productId) \in Products THEN st[ProductOf(productId)] ELSE Absent

\* How the read call ends: the fetch rejects, a non-success status with a
\* JSON error body, or success.
ReadOutcomes == {"reject", "http", "ok"}

\* Faulty variant: the Reader does not look at the status of the response and
\* takes a failure answer for an empty list.
fetchReviews_IgnoresStatus(rev, e, o, metafield) ==
  LET parsed == JSONparse(metafield)
      thrown(m, entries) ==
        [ok |-> FALSE, v |-> Undef, message |-> m,
         log |-> entries \o <<Entry(245, m)>>]
      read == <<Entry(232, Num(200)), Entry(240, metafield)>>
      value(x) == [ok |-> TRUE, v |-> x, message |-> Undef, log |-> read]
  IN IF o = "reject" THEN thrown(FetchError(graphqlUrl(e)), <<>>)
     ELSE IF rev = "hardened"
     THEN IF o = "http" \/ metafield.k \in {"absent", "empty"} THEN value(List(<<>>))
          ELSE IF parsed.ok THEN value(parsed.v)
          ELSE thrown(Msg("Unexpected token"), read)
     ELSE IF o = "http" \/ metafield.k = "absent" THEN value(Null)
          ELSE IF metafield.k = "empty" THEN value(List(<<>>))
          ELSE IF parsed.ok THEN value(parsed.v)
          ELSE thrown(Msg("Unexpected token"), read)

\* fetchReviews from the return of its fetch: the value returned, or the
\* error thrown, and what it logged on the way.
fetchReviews(rev, e, o, metafield) ==
  LET parsed == JSONparse(metafield)
      thrown(m, entries) ==
        [ok |-> FALSE, v |-> Undef, message |-> m,
         log |-> entries \o <<Entry(245, m)>>]
      read == <<Entry(232, Num(200)), Entry(240, metafield)>>
      value(x) == [ok |-> TRUE, v |-> x, message |-> Undef, log |-> read]
  IN IF o = "reject" THEN thrown(FetchError(graphqlUrl(e)), <<>>)
     ELSE IF rev = "hardened"
     THEN IF o = "http"
          THEN thrown(Msg("Failed to fetch reviews: 500"),
                      <<Entry(232, Num(500)), Entry(235, Msg("error body"))>>)
          ELSE IF metafield.k \in {"absent", "empty"} THEN value(List(<<>>))
          ELSE IF parsed.ok THEN value(parsed.v)
          ELSE thrown(Msg("Unexpected token"), read)
     ELSE IF o = "http" \/ metafield.k = "absent" THEN value(Null)
          ELSE IF metafield.k = "empty" THEN value(List(<<>>))
          ELSE IF parsed.ok THEN value(parsed.v)
          ELSE thrown(Msg("Unexpected token"), read)

\* Faulty variant: the payload is spread over the record, so that a status or a date
\* sent by the client replaces the server's.
NewReview_SpreadsPayload(l, t, rev) ==
  LET p == l.request.body.v.v
  IN Obj([name |-> IF rev = "hardened" THEN l.sanitizedName ELSE l.name,
          text |-> IF rev = "hardened" THEN l.sanitizedText ELSE l.text,
          stars |-> IF rev = "hardened" THEN l.starsNum ELSE l.stars,
          status |-> IF Truthy(p.status) THEN p.status ELSE Pending,
          date |-> IF Truthy(p.date) THEN p.date ELSE ISODate(t)])

\* The review record the handler builds.
NewReview(l, t, rev) ==
  IF rev = "hardened"
  THEN Obj([name |-> l.sanitizedName, text |-> l.sanitizedText,
            stars |-> l.starsNum, status |-> Pending, date |-> ISODate(t)])
  ELSE Obj([name |-> l.name, text |-> l.text, stars |-> l.stars,
            status |-> Pending, date |-> ISODate(t)])

\* Faulty variant: the new review is put first.
UpdatedReviews_Prepends(existing, review) == <<review>> \o existing

\* [...(existingReviews || []), review]
UpdatedReviews(existing, review) == Append(existing, review)

\* Faulty variant: the write is not awaited; the handler answers 200 at once.
AfterRead_DoesNotAwaitWrite(l0, o, metafield, t, rev, e) ==
  LET r == fetchReviews(rev, e, o, metafield)
      l == Log([Resume(l0) EXCEPT
                  !.metafield = IF o = "ok" THEN metafield ELSE NoMetafield],
               rev, r.log)
      base == IF Truthy(r.v) THEN r.v ELSE List(<<>>)
      updated == List(UpdatedReviews(base.v, NewReview(l, t, rev)))
      u == Log([l EXCEPT !.existingReviews = r.v, !.updatedReviews = updated],
               rev, <<Entry(145, r.v), Entry(157, updated)>>)
      w == CallUpdateReviews(u, rev, e)
  IN IF ~r.ok THEN Caught(l, rev, e, r.message)
     ELSE IF base.t # "list"
     THEN Caught(Log([l EXCEPT !.existingReviews = r.v], rev,
                     <<Entry(145, r.v)>>),
                 rev, e, Msg("existingReviews is not iterable"))
     ELSE IF w.pc = "write"
     THEN Respond(Log(w, rev, <<Entry(180, Undef)>>), rev, e, 200,
                  Body(Undef, Undef, Msg("Review submitted successfully")))
     ELSE w

\* The handler from the return of the read call to its next await.
AfterRead(l0, o, metafield, t, rev, e) ==
  LET r == fetchReviews(rev, e, o, metafield)
      l == Log([Resume(l0) EXCEPT
                  !.metafield = IF o = "ok" THEN metafield ELSE NoMetafield],
               rev, r.log)
      base == IF Truthy(r.v) THEN r.v ELSE List(<<>>)
      updated == List(UpdatedReviews(base.v, NewReview(l, t, rev)))
      u == Log([l EXCEPT !.existingReviews = r.v, !.updatedReviews = updated],
               rev, <<Entry(145, r.v), Entry(157, updated)>>)
  IN IF ~r.ok THEN Caught(l, rev, e, r.message)
     ELSE IF base.t # "list"
     THEN Caught(Log([l EXCEPT !.existingReviews = r.v], rev,
                     <<Entry(145, r.v)>>),
                 rev, e, Msg("existingReviews is not iterable"))
     ELSE CallUpdateReviews(u, rev, e)

\* ------------------------------------------------------------ writing
UserError == Obj([field |-> Msg("value"), message |-> Msg("is invalid")])

WriteResult(errors, userErrors) == Obj([errors |-> errors, userErrors |-> userErrors])

\* How the write call ends.  The mutation sets one metafield: the platform
\* stores the whole value or nothing.  A rejected fetch says nothing about
\* whether the mutation was applied; an identifier that names no product is
\* never written.
WriteOutcomes(productId) ==
  { [k |-> "reject", applied |-> FALSE, result |-> Undef],
    [k |-> "http", applied |-> FALSE,
     result |-> WriteResult(Msg("Unauthorized"), Undef)],
    [k |-> "ok", applied |-> FALSE,
     result |-> WriteResult(List(<<Msg("Throttled")>>), Undef)],
    [k |-> "ok", applied |-> FALSE,
     result |-> WriteResult(Undef, List(<<UserError>>))] }
    \cup (IF ProductOf(productId) \in Products
          THEN { [k |-> "reject", applied |-> TRUE, result |-> Undef],
                 [k |-> "ok", applied |-> TRUE,
                  result |-> WriteResult(Undef, List(<<>>))] }
          ELSE {})

\* Faulty variant: only the new review is sent.
MetafieldValue_OnlyNewReview(l) ==
  JSONstringify(List(<<l.updatedReviews.v[Len(l.updatedReviews.v)]>>))

\* variables.metafields[0].value / variables.input.value
MetafieldValue(l) == JSONstringify(l.updatedReviews)

\* Faulty variant: the value is set only while the metafield is still the one the
\* invocation read (a version check).
ApplyWrite_ChecksVersion(st, l, o) ==
  IF o.applied /\ ReadMetafield(st, l.productId) = l.metafield
  THEN [st EXCEPT ![ProductOf(l.productId)] = MetafieldValue(l)]
  ELSE st

\* The platform's metafield after the write call.
ApplyWrite(st, l, o) ==
  IF o.applied THEN [st EXCEPT ![ProductOf(l.productId)] = MetafieldValue(l)]
  ELSE st

\* updateReviews from the return of its fetch: the value returned, or the
\* error thrown, and what it logged on the way.
updateReviews(rev, e, o) ==
  LET thrown(m, entries) ==
        [ok |-> FALSE, v |-> Undef, message |-> m,
         log |-> entries \o <<Entry(313, m)>>]
  IN IF o.k = "reject" THEN thrown(FetchError(graphqlUrl(e)), <<>>)
     ELSE IF rev = "hardened" /\ o.k = "http"
     THEN thrown(Msg("Failed to update reviews: 500"),
                 <<Entry(302, Num(500)), Entry(305, Msg("error body"))>>)
     ELSE [ok |-> TRUE, v |-> o.result, message |-> Undef,
           log |-> <<Entry(302, Num(200)), Entry(310, o.result)>>]

\* x?.length > 0
LengthPositive(x) ==
  \/ x.t = "list" /\ Len(x.v) > 0
  \/ x.t = "msg" /\ x.v # ""

\* The handler from the return of the write call to its return.
AfterWrite(l0, o, rev, e) ==
  LET r == updateReviews(rev, e, o)
      l == Log(Resume(l0), rev, r.log)
      u == [l EXCEPT !.updateResult = r.v]
      success == Respond(Log(u, rev, <<Entry(180, Undef)>>), rev, e, 200,
                         Body(Undef, Undef, Msg("Review submitted successfully")))
  IN IF ~r.ok THEN Caught(l, rev, e, r.message)
     ELSE IF rev = "hardened"
     THEN IF LengthPositive(r.v.v.errors)
          THEN Respond(Log(u, rev, <<Entry(161, r.v.v.errors)>>), rev, e, 500,
                       Body(Msg("Failed to update reviews"), r.v.v.errors, Undef))
          ELSE IF LengthPositive(r.v.v.userErrors)
          THEN Respond(Log(u, rev, <<Entry(169, r.v.v.userErrors)>>), rev, e, 500,
                       Body(Msg("Failed to update reviews"), r.v.v.userErrors, Undef))
          ELSE success
     ELSE IF Truthy(r.v.v.errors)
          THEN Respond(u, rev, e, 500, ErrorBody(r.v.v.errors))
          ELSE success

\* ------------------------------------------------------------ actions
Init ==
  /\ revision \in Revisions
  /\ env \in Envs
  /\ store \in [Products -> InitialStores]
  /\ inv = [i \in Invocations |-> InitLocal]

\* The hosting platform invokes the handler with a request.  Invocations
\* are numbered in the order of their arrival.
Receive(i) ==
  /\ inv[i].pc = "idle"
  /\ \A j \in Invocations : j < i => inv[j].pc # "idle"
  /\ \E req \in Requests :
       inv' = [inv EXCEPT ![i] = HandlerEntry(inv[i], req, revision, env)]
  /\ UNCHANGED <<revision, env, store>>

VerifyReturns(i) ==
  /\ inv[i].pc = "verify"
  /\ \E o \in VerifyOutcomes :
       inv' = [inv EXCEPT ![i] = AfterVerify(inv[i], o, revision, env)]
  /\ UNCHANGED <<revision, env, store>>

\* The read call returns; new Date() reads the clock of the host the
\* invocation runs on.
ReadReturns(i) ==
  /\ inv[i].pc = "read"
  /\ \E o \in ReadOutcomes, t \in 1..MaxClock :
       inv' = [inv EXCEPT ![i] =
                 AfterRead(inv[i], o, ReadMetafield(store, inv[i].productId),
                           t, revision, env)]
  /\ UNCHANGED <<revision, env, store>>

WriteReturns(i) ==
  /\ inv[i].pc = "write"
  /\ \E o \in WriteOutcomes(inv[i].productId) :
       /\ inv' = [inv EXCEPT ![i] = AfterWrite(inv[i], o, revision, env)]
       /\ store' = ApplyWrite(store, inv[i], o)
  /\ UNCHANGED <<revision, env>>

Next ==
  \E i \in Invocations :
    \/ Receive(i)
    \/ VerifyReturns(i)
    \/ ReadReturns(i)
    \/ WriteReturns(i)

Spec == Init /\ [][Next]_vars

\* ============================================================ claims
Started(i) == inv[i].pc # "idle"

Done(i) == inv[i].pc = "done"

Issued(i, call) == \E k \in 1..Len(inv[i].events) : inv[i].events[k] = call

StatusOf(i) == inv[i].response.statusCode

\* The keys of the JSON body of the response.
BodyOf(i) == inv[i].response.body.v.v

HasJsonBody(i) ==
  inv[i].response.body.k = "json" /\ inv[i].response.body.v.t = "obj"

Returns(i, status, error) ==
  /\ Done(i)
  /\ StatusOf(i) = status
  /\ HasJsonBody(i)
  /\ BodyOf(i).error = error

Success(i) ==
  /\ Done(i)
  /\ StatusOf(i) = 200
  /\ HasJsonBody(i)
  /\ BodyOf(i).message = Msg("Review submitted successfully")

\* The payload a request carries, when its body is the JSON of an object.
HasPayload(i) ==
  inv[i].request.body.k = "json" /\ inv[i].request.body.v.t = "obj"

PayloadOf(i) == inv[i].request.body.v.v

\* The list the Reader returned, as the handler reads it.
FetchedList(i) ==
  IF inv[i].existingReviews.t = "list" THEN inv[i].existingReviews.v ELSE <<>>

\* The list the Writer sends, read back from the mutation's value.
WrittenList(i) == JSONparse(MetafieldValue(inv[i])).v.v

NewestReview(i) == WrittenList(i)[Len(WrittenList(i))].v

\* C1: the list passed to the Writer is the list the Reader returned (the
\* empty list when the metafield is absent or its value is empty), entries
\* and order kept, followed by exactly one new review.
C1_WriterGetsFetchedPlusOne ==
  \A i \in Invocations :
    Issued(i, "write") =>
      /\ Len(WrittenList(i)) = Len(FetchedList(i)) + 1
      /\ \A k \in 1..Len(FetchedList(i)) : WrittenList(i)[k] = FetchedList(i)[k]
      /\ NewestReview(i).status = Pending
      /\ NewestReview(i).name =
           IF revision = "hardened" THEN inv[i].sanitizedName ELSE inv[i].name
      /\ inv[i].metafield.k \in {"absent", "empty"} => FetchedList(i) = <<>>
      /\ inv[i].metafield.k = "json" /\ inv[i].metafield.v.t = "list"
           => FetchedList(i) = inv[i].metafield.v.v

C1_Witness ==
  \E i \in Invocations :
    /\ Issued(i, "write")
    /\ FetchedList(i) = <<OldReview1, OldReview2>>
    /\ Len(WrittenList(i)) = 3
    /\ WrittenList(i)[1] = OldReview1
    /\ WrittenList(i)[2] = OldReview2

\* C2: every review this system appends has status "pending" and a date
\* made by the server, and two payloads that agree on productId, name, text
\* and stars give the same record apart from the date, whatever else they hold.
C2_OnlyNameTextStars ==
  /\ \A i \in Invocations :
       Issued(i, "write") =>
         /\ NewestReview(i).status = Pending
         /\ NewestReview(i).date.t = "date"
         /\ NewestReview(i).date.v \in 1..MaxClock
  /\ \A i, j \in Invocations :
       ( /\ Issued(i, "write") /\ Issued(j, "write")
         /\ PayloadOf(i).productId = PayloadOf(j).productId
         /\ PayloadOf(i).name = PayloadOf(j).name
         /\ PayloadOf(i).text = PayloadOf(j).text
         /\ PayloadOf(i).stars = PayloadOf(j).stars )
       => [NewestReview(i) EXCEPT !.date = Undef]
            = [NewestReview(j) EXCEPT !.date = Undef]
  /\ \A p \in Products :
       store[p].k = "json" =>
         \A k \in 1..Len(store[p].v.v) :
           \/ store[p].v.v[k] \in {OldReview1, OldReview2}
           \/ /\ store[p].v.v[k].v.status = Pending
              /\ store[p].v.v[k].v.date.t = "date"

C2_Witness ==
  \E i, j \in Invocations :
    /\ i # j
    /\ Issued(i, "write") /\ Issued(j, "write")
    /\ PayloadOf(i).status = Str(<<"o", "k">>)
    /\ PayloadOf(i).date = Str(<<"1", "9", "9", "9">>)
    /\ PayloadOf(j).status = Undef
    /\ PayloadOf(i).name = PayloadOf(j).name
    /\ PayloadOf(i).stars = PayloadOf(j).stars
    /\ Success(i)
    /\ store[Chars100] = MetafieldValue(inv[i])

\* C3: in the hardened revision a verification that reports success = false
\* ends the invocation with 400 "reCAPTCHA verification failed", details the
\* verifier's error codes (the fallback message when it sent none), and
\* neither the Reader nor the Writer is called.
VerificationFailed(i) ==
  /\ inv[i].recaptchaData.t = "obj"
  /\ inv[i].recaptchaData.v.success = Bool(FALSE)

C3_FailedVerificationStops ==
  \A i \in Invocations :
    revision = "hardened" /\ VerificationFailed(i) =>
      /\ Returns(i, 400, Msg("reCAPTCHA verification failed"))
      /\ BodyOf(i).details =
           IF inv[i].recaptchaData.v.codes.t = "list"
           THEN inv[i].recaptchaData.v.codes
           ELSE Msg("Invalid reCAPTCHA response")
      /\ ~Issued(i, "read")
      /\ ~Issued(i, "write")

C3_Witness ==
  \E i \in Invocations :
    /\ revision = "hardened"
    /\ VerificationFailed(i)
    /\ inv[i].recaptchaData.v.codes = List(<<Msg("invalid-input-response")>>)
    /\ Done(i)

\* C4: every invocation ends by returning a response, no exception leaves
\* the handler, and every response other than 200 and 204 has a JSON body
\* with an error key.
C4_AlwaysResponds ==
  \A i \in Invocations :
    /\ inv[i].pc # "threw"
    /\ Done(i) /\ StatusOf(i) \notin {200, 204} =>
         HasJsonBody(i) /\ BodyOf(i).error # Undef

\* The write result carries a non-empty userErrors list.
UserErrorsReported(i) ==
  /\ inv[i].updateResult.t = "obj"
  /\ inv[i].updateResult.v.userErrors.t = "list"
  /\ Len(inv[i].updateResult.v.userErrors.v) > 0

\* C5: the last write wins.  A write the platform accepted (200, no
\* userErrors) stores the list its own invocation fetched plus its own
\* review, whatever the metafield holds by then (no lock, no version check),
\* so two concurrent invocations can both return 200 while only one of
\* their reviews is stored (C5_LostUpdate).
C5_LastWriteWins ==
  [][\A i \in Invocations :
       inv[i].pc = "write" /\ Success(i)' /\ ~UserErrorsReported(i)' =>
         store'[ProductOf(inv[i].productId)] =
           JSONstringify(List(Append(FetchedList(i),
                                     Obj(NewestReview(i)))))]_vars

C5_LostUpdate ==
  \E i, j \in Invocations :
    /\ i # j
    /\ Success(i) /\ Success(j)
    /\ ProductOf(inv[i].productId) = ProductOf(inv[j].productId)
    /\ FetchedList(i) = FetchedList(j)
    /\ NewestReview(i) # NewestReview(j)
    /\ store[ProductOf(inv[j].productId)] = MetafieldValue(inv[j])
    /\ Len(store[ProductOf(inv[j].productId)].v.v) = Len(FetchedList(i)) + 1
    /\ \A k \in 1..Len(WrittenList(j)) : WrittenList(j)[k].v # NewestReview(i)

\* C6: in one invocation the write is issued only after the read has come
\* back, and the response is returned only when no call is outstanding; a
\* 200 is returned only after the write has come back.
C6_ReadBeforeWriteBeforeResponse ==
  \A i \in Invocations :
    LET ev == inv[i].events
    IN /\ \A k \in 1..Len(ev) :
            ev[k] = "write" => \E m \in 1..(k - 1) : ev[m] = "read:done"
       /\ Done(i) =>
            \A k \in 1..Len(ev) :
              ev[k] \in {"verify", "read", "write"} =>
                \E m \in (k + 1)..Len(ev) : ev[m] = Returned(ev[k])
       /\ Success(i) => Issued(i, "write:done")

C6_Witness ==
  \E i \in Invocations :
    /\ Success(i)
    /\ inv[i].events =
         <<"verify", "verify:done", "read", "read:done", "write", "write:done">>

\* C7 as stated: a write step that fails leaves the stored list as it was.
C7_FailedWriteChangesNothing ==
  [][\A i \in Invocations :
       inv[i].pc = "write" /\ Done(i)' /\ ~Success(i)' => store' = store]_vars

\* The platform answered the write itself with a failure: a non-success
\* status, top-level errors or userErrors.
PlatformRefused(i) ==
  \/ inv[i].updateResult # Undef
  \/ HasJsonBody(i) /\ BodyOf(i).details = Msg("Failed to update reviews: 500")

\* C7 amended: a write step stores the whole updated list or changes
\* nothing; a failed one changes nothing when the platform itself answered
\* with the failure (when the call failed on its way, the whole list may
\* have been stored).
C7_WholeListOrNothing ==
  [][\A i \in Invocations :
       inv[i].pc = "write" /\ Done(i)' =>
         /\ \/ store' = store
            \/ store' = [store EXCEPT ![ProductOf(inv[i].productId)] =
                                        JSONstringify(inv[i].updatedReviews)]
         /\ ~Success(i)' /\ PlatformRefused(i)' => store' = store]_vars

C7_Witness ==
  \E i \in Invocations :
    /\ Done(i) /\ ~Success(i)
    /\ Issued(i, "write:done")
    /\ inv[i].updateResult = WriteResult(Undef, List(<<UserError>>))
    /\ Len(FetchedList(i)) = 2
    /\ store[ProductOf(inv[i].productId)] = JSONstringify(List(FetchedList(i)))

\* C8: a write result with userErrors gives 500 "Failed to update reviews"
\* with the list as details, for either mutation shape, and no 200.
C8_UserErrorsGive500 ==
  \A i \in Invocations :
    UserErrorsReported(i)
    => /\ Returns(i, 500, Msg("Failed to update reviews"))
       /\ BodyOf(i).details = inv[i].updateResult.v.userErrors

TokenOrShopMissing ==
  ~Truthy(env.ADMIN_API_ACCESS_TOKEN) \/ ~Truthy(env.SHOP)

IsConfigError(i) ==
  /\ Done(i)
  /\ StatusOf(i) = 500
  /\ HasJsonBody(i)
  /\ BodyOf(i).error \in
       {Msg("Server misconfiguration: Missing environment variables"),
        Msg("Server misconfiguration")}

\* C9 as stated: without the token or the shop every POST gets the
\* configuration error.
C9_EveryPostGetsConfigError ==
  \A i \in Invocations :
    Done(i) /\ inv[i].request.httpMethod = "POST" /\ TokenOrShopMissing
      => IsConfigError(i)

\* What the checks before the configuration check ask of a request.
FieldOf(i, f) == IF HasPayload(i) THEN PayloadOf(i)[f] ELSE Undef

ParseFails(i) == inv[i].request.body.k # "json"

FieldMissing(i) ==
  \/ \E f \in {"productId", "name", "text", "stars"} : ~Truthy(FieldOf(i, f))
  \/ revision = "hardened" /\ ~Truthy(FieldOf(i, "recaptchaResponse"))

StarsOutOfRange(i) ==
  /\ revision = "hardened"
  /\ \/ parseInt(FieldOf(i, "stars")) = NaN
     \/ parseInt(FieldOf(i, "stars")).v \notin 1..5

\* C9 amended: without the token or the shop no invocation makes an
\* outbound call, and every POST that passes the body, required-field and
\* stars checks gets the configuration error.
C9_ValidPostGetsConfigError ==
  \A i \in Invocations :
    Started(i) /\ TokenOrShopMissing =>
      /\ inv[i].events = <<>>
      /\ ( /\ inv[i].request.httpMethod = "POST"
           /\ HasPayload(i)
           /\ ~FieldMissing(i)
           /\ ~StarsOutOfRange(i) )
         => IsConfigError(i)

C9_Witness ==
  \E i \in Invocations :
    /\ TokenOrShopMissing
    /\ inv[i].request = [httpMethod |-> "POST",
                         body |-> JSONstringify(Obj(ValidPayload))]
    /\ IsConfigError(i)
    /\ inv[i].events = <<>>

\* C10: the checks run in the order body parsing, required fields, stars
\* range, configuration, verification; the response is that of the first
\* check that fails, and no call is made unless all pass.  A stars value of
\* 0 gets "Missing required fields".
C10_EarliestFailureWins ==
  \A i \in Invocations :
    /\ Done(i) /\ inv[i].request.httpMethod = "POST" =>
         IF ParseFails(i) THEN Returns(i, 400, Msg("Invalid JSON body"))
         ELSE IF FieldMissing(i)
         THEN Returns(i, 400, Msg("Missing required fields"))
         ELSE IF StarsOutOfRange(i)
         THEN Returns(i, 400, Msg("Stars must be a number between 1 and 5"))
         ELSE IF ConfigMissing(revision, env) THEN IsConfigError(i)
         ELSE /\ inv[i].events # <<>>
              /\ inv[i].events[1] = IF revision = "hardened" THEN "verify" ELSE "read"
    /\ inv[i].events # <<>> =>
         /\ ~ParseFails(i) /\ ~FieldMissing(i) /\ ~StarsOutOfRange(i)
         /\ ~ConfigMissing(revision, env)
    /\ Started(i) /\ inv[i].request.httpMethod = "POST"
         /\ FieldOf(i, "stars") = Num(0)
         => Returns(i, 400, Msg("Missing required fields"))

C10_Witness ==
  \E i \in Invocations :
    /\ inv[i].request.httpMethod = "POST"
    /\ FieldOf(i, "stars") = Num(0)
    /\ ConfigMissing(revision, env)
    /\ Returns(i, 400, Msg("Missing required fields"))

\* The bot verification came back and reported success.
VerificationSucceeded(i) ==
  /\ Issued(i, "verify:done")
  /\ inv[i].recaptchaData.t = "obj"
  /\ Truthy(inv[i].recaptchaData.v.success)

\* A POST that passes every check made before the first outbound call.
PassesPreChecks(i) ==
  /\ inv[i].request.httpMethod = "POST"
  /\ HasPayload(i)
  /\ ~FieldMissing(i)
  /\ ~StarsOutOfRange(i)
  /\ ~ConfigMissing(revision, env)

\* The productId is a string that is not one or more decimal digits.
BadProductId(i) ==
  /\ FieldOf(i, "productId").t = "str"
  /\ ~AllDigits(FieldOf(i, "productId").v)

Unexpected(i, details) ==
  /\ Returns(i, 500, Msg("An unexpected error occurred"))
  /\ BodyOf(i).details = details

\* C11 as stated: in the hardened revision a POST with a malformed productId
\* and otherwise valid fields makes no outbound call at all (no bot
\* verification, no read, no write) and gets 500 "An unexpected error
\* occurred".
C11_BadProductIdMakesNoCall ==
  \A i \in Invocations :
    revision = "hardened" /\ Done(i) /\ PassesPreChecks(i) /\ BadProductId(i)
      => /\ inv[i].events = <<>>
         /\ Returns(i, 500, Msg("An unexpected error occurred"))

\* C11 amended: in the hardened revision a POST with a malformed productId
\* and otherwise valid fields makes the bot-verification call first and
\* never a read or a write; when the verification reports success it gets
\* 500 "An unexpected error occurred" with details "Invalid productId
\* format", otherwise the response of the failed verification.
C11_BadProductIdMakesNoPlatformCall ==
  \A i \in Invocations :
    revision = "hardened" /\ Started(i) /\ PassesPreChecks(i) /\ BadProductId(i)
      => /\ ~Issued(i, "read")
         /\ ~Issued(i, "write")
         /\ inv[i].events # <<>> /\ inv[i].events[1] = "verify"
         /\ Done(i) =>
              IF VerificationSucceeded(i)
              THEN Unexpected(i, Msg("Invalid productId format"))
              ELSE /\ StatusOf(i) \in {400, 500}
                   /\ BodyOf(i).error \in {Msg("reCAPTCHA verification failed"),
                                            Msg("Failed to verify reCAPTCHA")}

C11_Witness ==
  \E i \in Invocations :
    /\ revision = "hardened"
    /\ PassesPreChecks(i)
    /\ FieldOf(i, "productId") = Str(<<"a", "b", "c", "1">>)
    /\ inv[i].events = <<"verify", "verify:done">>
    /\ VerificationSucceeded(i)
    /\ Unexpected(i, Msg("Invalid productId format"))

\* A platform call of the invocation came back with a failure.
PlatformCallFailed(i) ==
  \/ Issued(i, "read:done") /\ inv[i].metafield = NoMetafield
  \/ /\ Issued(i, "write:done")
     /\ inv[i].updateResult # WriteResult(Undef, List(<<>>))

\* C12: a POST whose productId is the JSON number 100, with valid fields,
\* complete configuration, successful bot verification and successful
\* platform calls, ends as the same request with productId "100" does: the
\* Reader and the Writer are called for product 100 and the response is 200
\* with the success message.
C12_NumericProductIdAccepted ==
  \A i \in Invocations :
    ( /\ Done(i)
      /\ PassesPreChecks(i)
      /\ FieldOf(i, "productId") = Num(100)
      /\ revision = "hardened" => VerificationSucceeded(i)
      /\ ~PlatformCallFailed(i) )
    => /\ Success(i)
       /\ Issued(i, "read")
       /\ Issued(i, "write")
       /\ ProductOf(inv[i].productId) = Chars100

\* The stars of the review an invocation passes to the Writer.
WrittenStars(i) == NewestReview(i).stars

EntityOf(c) ==
  CASE c = "<" -> <<"&", "l", "t", ";">>
    [] c = ">" -> <<"&", "g", "t", ";">>
    [] c = "\"" -> <<"&", "q", "u", "o", "t", ";">>
    [] c = "'" -> <<"&", "#", "3", "9", ";">>
    [] c = "&" -> <<"&", "a", "m", "p", ";">>
    [] OTHER -> <<c>>

RECURSIVE Escaped(_)
Escaped(s) == IF s = <<>> THEN <<>> ELSE EntityOf(Head(s)) \o Escaped(Tail(s))

HasAngleBracket(x) ==
  x.t = "str" /\ \E k \in 1..Len(x.v) : x.v[k] \in {"<", ">"}

\* C14: in the hardened revision the name and the text of the review passed
\* to the Writer are the submitted values with every <, >, ", ' and &
\* replaced by its HTML entity escape and the white space at both ends
\* removed; no raw angle bracket of the client reaches the stored record.
C14_NameAndTextEscaped ==
  \A i \in Invocations :
    revision = "hardened" /\ Issued(i, "write") =>
      \A f \in {"name", "text"} :
        FieldOf(i, f).t = "str" =>
          /\ NewestReview(i)[f] = Str(Trim(Escaped(FieldOf(i, f).v)))
          /\ ~HasAngleBracket(NewestReview(i)[f])

\* C15: in the hardened revision every review passed to the Writer has a
\* name and a text that are not empty after sanitization; a submission whose
\* name or text is empty once sanitized (a string of white space only) never
\* reaches the Writer.
C15_NameAndTextNotEmpty ==
  \A i \in Invocations :
    revision = "hardened" /\ Issued(i, "write") =>
      /\ Truthy(NewestReview(i).name)
      /\ Truthy(NewestReview(i).text)
      /\ sanitizeInput(FieldOf(i, "name")) # Str(<<>>)
      /\ sanitizeInput(FieldOf(i, "text")) # Str(<<>>)

\* The origin the deployment is configured with: ALLOWED_ORIGIN of the
\* environment in the hardened revision (the default when it is not set),
\* the origin written in the file in the early revision.
ConfiguredOrigin ==
  IF revision = "hardened" /\ env.ALLOWED_ORIGIN # Undef THEN env.ALLOWED_ORIGIN
  ELSE Msg("https://mamamary.io")

\* C16: every response the handler returns, whatever its status, carries
\* the same three CORS headers: Allow-Origin the configured origin,
\* Allow-Methods "POST, OPTIONS" and Allow-Headers "Content-Type".
C16_SameCorsHeadersEverywhere ==
  \A i \in Invocations :
    Done(i) =>
      /\ StatusOf(i) \in {200, 204, 400, 405, 500}
      /\ inv[i].response.headers =
           [AllowOrigin |-> ConfiguredOrigin,
            AllowMethods |-> Msg("POST, OPTIONS"),
            AllowHeaders |-> Msg("Content-Type")]

C16_Witness ==
  \E i, j \in Invocations :
    /\ StatusOf(i) = 200
    /\ StatusOf(j) = 500
    /\ Issued(j, "read:done")
    /\ inv[i].response.headers.AllowOrigin = Msg("https://shop.example")
    /\ inv[j].response.headers = inv[i].response.headers

\* How many times a call was issued in an invocation.
TimesIssued(i, call) ==
  Cardinality({k \in 1..Len(inv[i].events) : inv[i].events[k] = call})

\* The verification call came back without a report of success.
VerifyFailed(i) == Issued(i, "verify:done") /\ ~VerificationSucceeded(i)

\* The read call was rejected or was answered with a failure status.
ReadFailed(i) == Issued(i, "read:done") /\ inv[i].metafield = NoMetafield

\* The write call was rejected or was answered with a failure.
WriteFailed(i) ==
  /\ Issued(i, "write:done")
  /\ inv[i].updateResult # WriteResult(Undef, List(<<>>))

\* C17: there is no retry.  In one invocation each of the three outbound
\* calls is issued at most once, and when one of them fails the invocation
\* issues no further call and returns an error response.
C17_NoRetryFailureEnds ==
  \A i \in Invocations :
    /\ \A call \in {"verify", "read", "write"} : TimesIssued(i, call) <= 1
    /\ VerifyFailed(i) =>
         /\ ~Issued(i, "read") /\ ~Issued(i, "write")
         /\ Done(i) /\ StatusOf(i) \in {400, 500}
    /\ ReadFailed(i) =>
         /\ ~Issued(i, "write")
         /\ Done(i) /\ StatusOf(i) = 500
    /\ WriteFailed(i) =>
         /\ inv[i].events[Len(inv[i].events)] = "write:done"
         /\ Done(i) /\ StatusOf(i) = 500

\* The same configuration with other values of the two secrets.
OtherSecrets(e) ==
  [e EXCEPT !.ADMIN_API_ACCESS_TOKEN = IF Truthy(@) THEN Msg("token2") ELSE @,
            !.RECAPTCHA_SECRET_KEY = IF Truthy(@) THEN Msg("secret2") ELSE @]

\* What an invocation shows: its response, its log entries and the calls
\* it made.
Shown(l) ==
  [pc |-> l.pc, response |-> l.response, log |-> l.log, events |-> l.events]

\* C18: neither the response nor a logged value depends on the value of
\* the access token or of the verification secret.  From every state an
\* invocation can be in, each step of the handler (entry, return of the
\* verification, of the read, of the write, with whatever outcome) shows the
\* same under two configurations that differ only in the secret values.
C18_SecretsDoNotShow ==
  \A i \in Invocations :
    /\ inv[i].pc = "idle" =>
         \A req \in Requests :
           Shown(HandlerEntry(inv[i], req, revision, env))
             = Shown(HandlerEntry(inv[i], req, revision, OtherSecrets(env)))
    /\ inv[i].pc = "verify" =>
         \A o \in VerifyOutcomes :
           Shown(AfterVerify(inv[i], o, revision, env))
             = Shown(AfterVerify(inv[i], o, revision, OtherSecrets(env)))
    /\ inv[i].pc = "read" =>
         \A o \in ReadOutcomes, t \in 1..MaxClock :
           LET m == ReadMetafield(store, inv[i].productId)
           IN Shown(AfterRead(inv[i], o, m, t, revision, env))
                = Shown(AfterRead(inv[i], o, m, t, revision, OtherSecrets(env)))
    /\ inv[i].pc = "write" =>
         \A o \in WriteOutcomes(inv[i].productId) :
           Shown(AfterWrite(inv[i], o, revision, env))
             = Shown(AfterWrite(inv[i], o, revision, OtherSecrets(env)))

\* C19: a request with method OPTIONS gets 204 with an empty body and the
\* three CORS headers, whatever its body and whatever the configuration;
\* its body is not parsed (nothing is taken from it) and no outbound call
\* is made.
C19_OptionsAlways204 ==
  \A i \in Invocations :
    Started(i) /\ inv[i].request.httpMethod = "OPTIONS" =>
      /\ Done(i)
      /\ StatusOf(i) = 204
      /\ inv[i].response.body = EmptyText
      /\ inv[i].response.headers =
           [AllowOrigin |-> ConfiguredOrigin,
            AllowMethods |-> Msg("POST, OPTIONS"),
            AllowHeaders |-> Msg("Content-Type")]
      /\ inv[i].events = <<>>
      /\ \A f \in {"productId", "name", "text", "stars", "recaptchaResponse"} :
           inv[i][f] = Undef

C19_Witness ==
  \E i, j \in Invocations :
    /\ ConfigMissing(revision, env)
    /\ inv[i].request = [httpMethod |-> "OPTIONS", body |-> BadText]
    /\ inv[j].request = [httpMethod |-> "OPTIONS", body |-> JSONstringify(Null)]
    /\ StatusOf(i) = 204 /\ StatusOf(j) = 204
    /\ inv[i].response.body = EmptyText

\* The read call came back with a list the handler could use.
ReadSucceeded(i) ==
  /\ Issued(i, "read:done")
  /\ inv[i].metafield # NoMetafield
  /\ inv[i].existingReviews.t = "list"

\* The invocation ended before the write: preflight, wrong method, a 400,
\* the configuration error, a failed verification or a failed read.
EndedBeforeWrite(i) ==
  /\ Done(i)
  /\ \/ StatusOf(i) \in {204, 405, 400}
     \/ IsConfigError(i)
     \/ VerifyFailed(i)
     \/ ReadFailed(i)

\* What holds of an invocation of the hardened revision that issued the
\* write, and of one that ended before it.
WriteOnlyAfterAllChecks ==
  \A i \in Invocations :
    revision = "hardened" =>
      /\ Issued(i, "write") =>
           /\ PassesPreChecks(i)
           /\ VerificationSucceeded(i)
           /\ ReadSucceeded(i)
           /\ SubSeq(inv[i].events, 1, 5) =
                <<"verify", "verify:done", "read", "read:done", "write">>
      /\ EndedBeforeWrite(i) => ~Issued(i, "write")

\* A step of an invocation that has issued no write leaves the stored list
\* as it was.
NoWriteNoChange ==
  \A i \in Invocations :
    revision = "hardened" /\ inv'[i] # inv[i] /\ ~Issued(i, "write")'
      => store' = store

\* C20: in the hardened revision the write call is issued only after the
\* method was POST, the body parsed, the required fields were there, stars
\* was in range, the configuration was complete, the verification came back
\* with success and the read came back with success, in this order; an
\* invocation that ends with 204, 405, 400, the configuration 500, a failed
\* verification or a failed read issues no write and leaves the stored list
\* unchanged.
C20_WritePreconditions ==
  []WriteOnlyAfterAllChecks /\ [][NoWriteNoChange]_vars

C20_Witness ==
  \E i, j \in Invocations :
    /\ revision = "hardened"
    /\ Issued(i, "write") /\ ReadSucceeded(i) /\ VerificationSucceeded(i)
    /\ Done(j) /\ ReadFailed(j) /\ StatusOf(j) = 500
    /\ ~Issued(j, "write")
    /\ \A p \in Products : store[p] \in InitialStores

====
